---- MODULE Spec2Model ----
(***************************************************************************)
(* SessionMessageStore (src/storage/sessions.rs): the session-backed       *)
(* storage of flash messages.  The session is a map from string keys to    *)
(* serialized (JSON) values; a store owns one key of it.  load reads and   *)
(* deserializes the slot at the key, store replaces the slot by the        *)
(* serialized messages or removes it when there are no messages.           *)
(***************************************************************************)
EXTENDS Naturals, Sequences, FiniteSets, TLC

VARIABLES session, last, prev

vars == <<session, last, prev>>

(* ------------------------------ bounds -------------------------------- *)

\* longest message sequence handed to store / found in the initial session
MaxLen == 2

(* ------------------------------ values -------------------------------- *)

\* Option<T>
None == [some |-> FALSE]
Some(v) == [some |-> TRUE, v |-> v]

\* Result<T, E>
Ok(v) == [ok |-> TRUE, val |-> v]
Err(e) == [ok |-> FALSE, err |-> e]

\* FlashMessage: a level and a content
Levels == {"info", "error"}
FlashMessage == {[content |-> "Saved", level |-> "info"],
                 [content |-> "Oops", level |-> "error"]}

MsgSeqs == UNION {[1..n -> FlashMessage] : n \in 0..MaxLen}

\* keys of the session map: the default key, a custom key, and a key that
\* belongs to other users of the session
DefaultKey == "_flash"
CustomKeys == {"custom"}
ForeignKeys == {"user_id"}
Keys == {DefaultKey} \cup CustomKeys \cup ForeignKeys

(* ------------------- serialization of Vec<FlashMessage> --------------- *)

\* one message as JSON tokens
SerializeMessage(m) == <<"{", "content", m.content, "level", m.level, "}">>

RECURSIVE SerializeItems(_)
SerializeItems(ms) ==
    IF ms = <<>> THEN <<>>
    ELSE IF Len(ms) = 1 THEN SerializeMessage(ms[1])
    ELSE SerializeMessage(ms[1]) \o <<",">> \o SerializeItems(Tail(ms))

\* the JSON text of a message sequence, as a sequence of tokens
Serialize(ms) == <<"[">> \o SerializeItems(ms) \o <<"]">>

RECURSIVE DeserializeItems(_)
DeserializeItems(body) ==
    IF Len(body) < 6 THEN Err("json")
    ELSE IF ~(/\ body[1] = "{" /\ body[2] = "content" /\ body[4] = "level"
              /\ body[5] \in Levels /\ body[6] = "}") THEN Err("json")
    ELSE LET m == [content |-> body[3], level |-> body[5]]
         IN IF Len(body) = 6 THEN Ok(<<m>>)
            ELSE IF body[7] # "," THEN Err("json")
            ELSE LET rest == DeserializeItems(SubSeq(body, 8, Len(body)))
                 IN IF rest.ok THEN Ok(<<m>> \o rest.val) ELSE rest

\* parse the JSON text of a slot as Vec<FlashMessage>
Deserialize(raw) ==
    IF Len(raw) < 2 THEN Err("json")
    ELSE IF raw[1] # "[" \/ raw[Len(raw)] # "]" THEN Err("json")
    ELSE IF Len(raw) = 2 THEN Ok(<<>>)
    ELSE DeserializeItems(SubSeq(raw, 2, Len(raw) - 1))

\* slot values that are not a Vec<FlashMessage>: a number, and a message
\* object without its level
Garbage == {<<"42">>, <<"[", "{", "content", "Saved", "}", "]">>}

(* ----------------------------- the session ---------------------------- *)

\* session.get::<Vec<FlashMessage>>(key): Ok(None) when absent, the parsed
\* value when present, an error when the value does not parse
get(s, key) ==
    IF ~s[key].some THEN Ok(None)
    ELSE LET d == Deserialize(s[key].v)
         IN IF d.ok THEN Ok(Some(d.val)) ELSE d

\* session.insert(key, messages): serializes and writes the slot; a failed
\* serialization writes nothing
insert(s, key, messages, fault) ==
    IF fault THEN [session |-> s, result |-> Err("json")]
    ELSE [session |-> [s EXCEPT ![key] = Some(Serialize(messages))],
          result |-> Ok(<<>>)]

\* session.remove(key)
remove(s, key) == [s EXCEPT ![key] = None]

(* ------------------------- SessionMessageStore ------------------------ *)

new(key) == [key |-> key]

default == [key |-> "_flash"]

Stores == {default} \cup {new(k) : k \in CustomKeys}

\* Option::unwrap_or_default
unwrap_or_default(o) == IF o.some THEN o.v ELSE <<>>

\* load that always reads the default key
load_default_key(self, s) ==
    LET r == get(s, "_flash")
    IN IF ~r.ok THEN Err("GenericError")
       ELSE Ok(unwrap_or_default(r.val))

\* load that treats an absent slot as a failure
load_absent_err(self, s) ==
    LET r == get(s, self.key)
    IN IF ~r.ok \/ ~r.val.some THEN Err("GenericError")
       ELSE Ok(r.val.v)

\* load that swallows the error of get
load_swallow(self, s) ==
    LET r == get(s, self.key)
    IN IF ~r.ok THEN Ok(<<>>)
       ELSE Ok(unwrap_or_default(r.val))

load(self, s) ==
    LET r == get(s, self.key)
    IN IF ~r.ok THEN Err("GenericError")
       ELSE Ok(unwrap_or_default(r.val))

\* store without the branch on is_empty
store_always_insert(self, messages, s, fault) ==
    LET w == insert(s, self.key, messages, fault)
    IN IF ~w.result.ok
       THEN [session |-> w.session, result |-> Err("GenericError")]
       ELSE [session |-> w.session, result |-> Ok(<<>>)]

\* store that appends to the messages already in the slot
store_append(self, messages, s, fault) ==
    IF messages = <<>>
    THEN [session |-> remove(s, self.key), result |-> Ok(<<>>)]
    ELSE LET old == load(self, s)
             all == IF old.ok THEN old.val \o messages ELSE messages
             w == insert(s, self.key, all, fault)
         IN IF ~w.result.ok
            THEN [session |-> w.session, result |-> Err("GenericError")]
            ELSE [session |-> w.session, result |-> Ok(<<>>)]

\* store that always writes the default key
store_default_key(self, messages, s, fault) ==
    IF messages = <<>>
    THEN [session |-> remove(s, "_flash"), result |-> Ok(<<>>)]
    ELSE LET w == insert(s, "_flash", messages, fault)
         IN IF ~w.result.ok
            THEN [session |-> w.session, result |-> Err("GenericError")]
            ELSE [session |-> w.session, result |-> Ok(<<>>)]

store(self, messages, s, fault) ==
    IF messages = <<>>
    THEN [session |-> remove(s, self.key), result |-> Ok(<<>>)]
    ELSE LET w == insert(s, self.key, messages, fault)
         IN IF ~w.result.ok
            THEN [session |-> w.session, result |-> Err("GenericError")]
            ELSE [session |-> w.session, result |-> Ok(<<>>)]

(* ------------------------------ the system ---------------------------- *)

\* the record of a call: its kind, the key of the store it went through,
\* its messages argument, whether serialization was made to fail, and what
\* it returned
NoCall == [kind |-> "none", key |-> "", messages |-> <<>>, fault |-> FALSE,
           result |-> Ok(<<>>)]

SlotValues == {None} \cup {Some(Serialize(ms)) : ms \in MsgSeqs}
                     \cup {Some(g) : g \in Garbage}

\* what the rest of the application keeps in the session
ForeignValues == {Some(<<"42">>)}

InitSessions ==
    {s \in [Keys -> SlotValues \cup ForeignValues] :
        /\ \A k \in ForeignKeys : s[k] \in ForeignValues
        /\ \A k \in Keys \ ForeignKeys : s[k] \in SlotValues}

Init ==
    /\ session \in InitSessions
    /\ last = NoCall
    /\ prev = NoCall

\* a fresh session: no slot of any store is present
InitFresh ==
    /\ session \in {s \in InitSessions :
                       \A k \in Keys \ ForeignKeys : s[k] = None}
    /\ last = NoCall
    /\ prev = NoCall

\* a load that takes the messages out of the slot
Load_take(self) ==
    /\ last' = [kind |-> "load", key |-> self.key, messages |-> <<>>,
                fault |-> FALSE, result |-> load(self, session)]
    /\ prev' = last
    /\ session' = remove(session, self.key)

Load(self) ==
    /\ last' = [kind |-> "load", key |-> self.key, messages |-> <<>>,
                fault |-> FALSE, result |-> load(self, session)]
    /\ prev' = last
    /\ UNCHANGED session

Store(self, messages, fault) ==
    LET r == store(self, messages, session, fault)
    IN /\ session' = r.session
       /\ last' = [kind |-> "store", key |-> self.key, messages |-> messages,
                   fault |-> fault, result |-> r.result]
       /\ prev' = last

LoadStep == \E self \in Stores : Load(self)

StoreStep == \E self \in Stores, messages \in MsgSeqs, fault \in BOOLEAN :
                 Store(self, messages, fault)

Next == LoadStep \/ StoreStep

Spec == Init /\ [][Next]_vars

SpecFresh == InitFresh /\ [][Next]_vars

(* ------------------------------ properties ---------------------------- *)

StoreKeys == {st.key : st \in Stores}

IsLoad(c) == c.kind = "load"
IsStore(c) == c.kind = "store"
StoredOk(c) == c.kind = "store" /\ c.result.ok

\* C1: a successful store(M) followed by load through the same key returns
\* Ok(M), same elements in the same order; when M is empty the load returns
\* Ok(empty) and the slot is absent from the map.
C1_RoundTrip ==
    (StoredOk(prev) /\ IsLoad(last) /\ last.key = prev.key)
        => /\ last.result = Ok(prev.messages)
           /\ (prev.messages = <<>> => session[last.key] = None)

C1_Witness ==
    /\ StoredOk(prev) /\ IsLoad(last) /\ last.key = prev.key
    /\ Len(prev.messages) = 2 /\ prev.messages[1] # prev.messages[2]
    /\ last.result = Ok(prev.messages)

\* C2: after store with an empty sequence the slot at the store's key is
\* absent from the map, whatever it held before.
C2_EmptyStoreRemoves ==
    (IsStore(last) /\ last.messages = <<>>) => session[last.key] = None

C2_Witness ==
    /\ StoredOk(prev) /\ prev.messages # <<>>
    /\ IsStore(last) /\ last.messages = <<>> /\ last.key = prev.key
    /\ session[last.key] = None

\* C3: after a successful store with a non-empty sequence M the slot holds
\* exactly M (it reads back as M), whatever was stored before.
C3_Replace ==
    (StoredOk(last) /\ last.messages # <<>>)
        => /\ session[last.key] = Some(Serialize(last.messages))
           /\ Deserialize(session[last.key].v) = Ok(last.messages)

C3_Witness ==
    /\ StoredOk(prev) /\ prev.messages # <<>>
    /\ StoredOk(last) /\ last.messages # <<>>
    /\ last.key = prev.key /\ last.messages # prev.messages
    /\ Deserialize(session[last.key].v) = Ok(last.messages)

\* C4: load leaves the whole session map unchanged, whether it succeeds or
\* fails, and two consecutive loads through the same key return the same
\* result.
C4_LoadReadOnly ==
    [][/\ IsLoad(last') => session' = session
       /\ (IsLoad(last) /\ IsLoad(last') /\ last'.key = last.key)
            => last'.result = last.result]_vars

C4_Witness ==
    /\ IsLoad(prev) /\ IsLoad(last) /\ last.key = prev.key
    /\ last.result.ok /\ Len(last.result.val) = 2
    /\ session[last.key].some
    /\ prev.result = last.result

\* C5: a second store(M) right after a successful store(M) through the same
\* key leaves the session map as the first one left it.
C5_StoreIdempotent ==
    [][(StoredOk(last) /\ IsStore(last') /\ last'.key = last.key
            /\ last'.messages = last.messages)
          => session' = session]_vars

C5_Witness ==
    /\ StoredOk(prev) /\ StoredOk(last)
    /\ last.key = prev.key /\ last.messages = prev.messages
    /\ Len(last.messages) = 2
    /\ session[last.key] = Some(Serialize(last.messages))

\* C6: default() uses the key "_flash" and new(k) the key k; a call through
\* a store leaves every key other than the store's own unchanged, and the
\* messages a load returns are those of the store's own slot.
C6_KeyIsolation ==
    [][/\ default.key = "_flash"
       /\ \A k \in CustomKeys : new(k).key = k
       /\ \A k \in Keys : k # last'.key => session'[k] = session[k]
       /\ (IsLoad(last') /\ last'.result.ok /\ last'.result.val # <<>>)
            => session[last'.key] = Some(Serialize(last'.result.val))]_vars

C6_Witness ==
    /\ StoredOk(prev) /\ prev.key = "custom" /\ prev.messages # <<>>
    /\ IsStore(last) /\ last.key = "_flash"
    /\ session["custom"] = Some(Serialize(prev.messages))
    /\ \A k \in ForeignKeys : session[k].some

\* C7: load through a key whose slot is absent returns Ok with an empty
\* sequence, never an error.
C7_LoadAbsent ==
    (IsLoad(last) /\ session[last.key] = None) => last.result = Ok(<<>>)

C7_Witness ==
    /\ StoredOk(prev) /\ prev.messages = <<>>
    /\ IsLoad(last) /\ last.key = prev.key
    /\ session[last.key] = None
    /\ last.result = Ok(<<>>)

\* C8: load through a key whose slot is present but does not deserialize as
\* a sequence of messages returns LoadError::GenericError, not Ok.
C8_LoadUndeserializable ==
    (IsLoad(last) /\ session[last.key].some
        /\ ~Deserialize(session[last.key].v).ok)
        => last.result = Err("GenericError")

C8_Witness ==
    /\ IsLoad(last) /\ session[last.key].some
    /\ session[last.key].v \in Garbage
    /\ ~last.result.ok

\* C9: store with an empty sequence always returns Ok; a StoreError comes
\* only from a non-empty sequence whose serialization or write failed.
C9_EmptyStoreNeverFails ==
    /\ (IsStore(last) /\ last.messages = <<>>) => last.result = Ok(<<>>)
    /\ (IsStore(last) /\ ~last.result.ok)
         => /\ last.messages # <<>> /\ last.fault
            /\ last.result = Err("GenericError")

C9_Witness ==
    /\ IsLoad(prev) /\ ~prev.result.ok
    /\ IsStore(last) /\ last.key = prev.key
    /\ last.messages = <<>> /\ last.fault
    /\ last.result.ok

\* C10: from a session with the slots absent, after any sequence of load
\* and store calls every slot is absent or holds a non-empty sequence of
\* messages that deserializes; an empty sequence is never written.
C10_SlotInvariant ==
    \A k \in StoreKeys :
        \/ session[k] = None
        \/ /\ Deserialize(session[k].v).ok
           /\ Deserialize(session[k].v).val # <<>>

C10_Witness ==
    /\ IsStore(last) /\ ~last.result.ok
    /\ StoredOk(prev) /\ prev.key = last.key /\ Len(prev.messages) = 2
    /\ session[last.key] = Some(Serialize(prev.messages))

====
